---- MODULE Spec2Model ----
(***************************************************************************)
(* Model of the XBVR REST API helper scripts:                              *)
(*   attempt-jav-file-match.py  (JavId parser, grouping, matching loop)    *)
(*   match-by-filename.py       (per-file workers)                         *)
(* A Python str is modelled as a sequence of one-character strings.        *)
(***************************************************************************)
EXTENDS Integers, Sequences, FiniteSets, TLC

\* ------------------------------------------------------------------------
\* Characters and the str methods the code calls
\* ------------------------------------------------------------------------
LowerLetters == <<"a","b","c","d","e","f","g","h","i","j","k","l","m",
                  "n","o","p","q","r","s","t","u","v","w","x","y","z">>

UpperLetters == <<"A","B","C","D","E","F","G","H","I","J","K","L","M",
                  "N","O","P","Q","R","S","T","U","V","W","X","Y","Z">>

\* [a-z] without re.I
LetterClass_NoIgnoreCase == {LowerLetters[i] : i \in 1..26}

\* [a-z] under re.I
LetterClass == {LowerLetters[i] : i \in 1..26} \cup {UpperLetters[i] : i \in 1..26}

\* [0-9]
DigitClass == {"0","1","2","3","4","5","6","7","8","9"}

\* [\-_\.]
SepClass == {"-", "_", "."}

\* \s (and the characters str.strip() removes)
SpaceClass == {" ", "\t", "\n", "\r"}

upper_char(c) ==
    IF \E i \in 1..26 : LowerLetters[i] = c
    THEN UpperLetters[CHOOSE i \in 1..26 : LowerLetters[i] = c]
    ELSE c

lower_char(c) ==
    IF \E i \in 1..26 : UpperLetters[i] = c
    THEN LowerLetters[CHOOSE i \in 1..26 : UpperLetters[i] = c]
    ELSE c

\* str.upper()
upper(s) == [i \in 1..Len(s) |-> upper_char(s[i])]

\* str.lower()
lower(s) == [i \in 1..Len(s) |-> lower_char(s[i])]

\* index just past the longest run of characters of class cls starting at i
RunEnd(s, i, cls) ==
    CHOOSE j \in i..(Len(s) + 1) :
        /\ \A k \in i..(j - 1) : s[k] \in cls
        /\ (j = Len(s) + 1 \/ s[j] \notin cls)

\* index of the last character of s that is not in cls (0 when there is none)
LastNotIn(s, cls) ==
    IF \E k \in 1..Len(s) : s[k] \notin cls
    THEN CHOOSE k \in 1..Len(s) :
            /\ s[k] \notin cls
            /\ \A m \in (k + 1)..Len(s) : s[m] \in cls
    ELSE 0

\* str.lstrip(chars)
lstrip(s, cls) == SubSeq(s, RunEnd(s, 1, cls), Len(s))

\* str.strip()
strip(s) == SubSeq(s, RunEnd(s, 1, SpaceClass), LastNotIn(s, SpaceClass))

Zeros(n) == [i \in 1..n |-> "0"]

\* str.zfill(width): zeros go after a leading sign
zfill(s, width) ==
    IF Len(s) >= width THEN s
    ELSE IF Len(s) > 0 /\ s[1] \in {"+", "-"}
         THEN <<s[1]>> \o Zeros(width - Len(s)) \o Tail(s)
         ELSE Zeros(width - Len(s)) \o s

\* str.startswith(prefix)
startswith(s, prefix) ==
    /\ Len(s) >= Len(prefix)
    /\ SubSeq(s, 1, Len(prefix)) = prefix

\* ------------------------------------------------------------------------
\* PAT_JAV_ID = (?<![a-z])([a-z]{4,6})\s*[\-_\.]*\s*([0-9]{3,6})   (re.I)
\* ------------------------------------------------------------------------
MinLetters == 4
MaxLetters == 6
MinDigits == 3
MaxDigits == 6

Min(a, b) == IF a <= b THEN a ELSE b

\* the tail without its second \s*
TailDigitsStart_NoTrailingSpace(s, p) ==
    RunEnd(s, RunEnd(s, p, SpaceClass), SepClass)

\* start of the digit group when the tail \s*[\-_\.]*\s* is matched from p.
\* The three quantifiers are greedy; the classes \s, [\-_\.] and [0-9] are
\* pairwise disjoint, so giving characters back never opens another match.
TailDigitsStart(s, p) ==
    RunEnd(s, RunEnd(s, RunEnd(s, p, SpaceClass), SepClass), SpaceClass)

\* number of digits available at p
DigitRun(s, p) == RunEnd(s, p, DigitClass) - p

\* the pattern matches at i with a letter group of exactly n letters
MatchesWith(s, i, n) ==
    /\ i + n - 1 <= Len(s)
    /\ \A k \in i..(i + n - 1) : s[k] \in LetterClass
    /\ DigitRun(s, TailDigitsStart(s, i + n)) >= MinDigits

\* the pattern matches at position i: lookbehind, then the letter group
MatchesAt(s, i) ==
    /\ (i = 1 \/ s[i - 1] \notin LetterClass)
    /\ \E n \in MinLetters..MaxLetters : MatchesWith(s, i, n)

\* PAT_JAV_ID.search(s): the leftmost match, greedy groups; ok = FALSE for None
PatSearch(s) ==
    IF \E i \in 1..Len(s) : MatchesAt(s, i)
    THEN LET i == CHOOSE i \in 1..Len(s) :
                    MatchesAt(s, i) /\ \A k \in 1..(i - 1) : ~MatchesAt(s, k)
             n == CHOOSE n \in MinLetters..MaxLetters :
                    /\ MatchesWith(s, i, n)
                    /\ \A m \in (n + 1)..MaxLetters : ~MatchesWith(s, i, m)
             p == TailDigitsStart(s, i + n)
             d == Min(DigitRun(s, p), MaxDigits)
         IN  [ok |-> TRUE,
              group1 |-> SubSeq(s, i, i + n - 1),
              group2 |-> SubSeq(s, p, p + d - 1)]
    ELSE [ok |-> FALSE, group1 |-> <<>>, group2 |-> <<>>]

\* ------------------------------------------------------------------------
\* class JavId
\* ------------------------------------------------------------------------
DSVR == <<"D","S","V","R">>
CanonDSVR == <<"3","D","S","V","R">>
ContentDSVR == <<"1","3","D","S","V","R">>

StoredWidth == 3
DvdWidth == 3
DvdWidthDSVR == 4
ContentWidth == 5

\* __post_init__ without the zfill(3)
JavId_NoFill(studio_code, scene_code) ==
    LET st == upper(strip(studio_code))
        sc == lstrip(strip(scene_code), {"0"})
    IN  [studio_code |-> IF st = DSVR THEN CanonDSVR ELSE st,
         scene_code  |-> sc]

\* JavId(studio_code, scene_code): the dataclass __init__ and __post_init__
JavId(studio_code, scene_code) ==
    LET st == upper(strip(studio_code))
        sc == zfill(lstrip(strip(scene_code), {"0"}), StoredWidth)
    IN  [studio_code |-> IF st = DSVR THEN CanonDSVR ELSE st,
         scene_code  |-> sc]

\* as_content_id without the 13DSVR substitution
as_content_id_NoPrefix(j) ==
    upper(j.studio_code) \o zfill(lstrip(upper(j.scene_code), {"0"}), ContentWidth)

as_content_id(j) ==
    LET studio == IF j.studio_code = CanonDSVR THEN ContentDSVR ELSE j.studio_code
    IN  upper(studio) \o zfill(lstrip(upper(j.scene_code), {"0"}), ContentWidth)

\* as_dvd_id without the zfill
as_dvd_id_NoFill(j) ==
    upper(j.studio_code) \o <<"-">> \o lstrip(upper(j.scene_code), {"0"})

as_dvd_id(j) ==
    LET scene == IF j.studio_code = CanonDSVR
                 THEN zfill(lstrip(upper(j.scene_code), {"0"}), DvdWidthDSVR)
                 ELSE zfill(lstrip(upper(j.scene_code), {"0"}), DvdWidth)
    IN  upper(j.studio_code) \o <<"-">> \o scene

id_formats(j) == <<as_content_id(j), as_dvd_id(j)>>

NoId == [studio_code |-> <<>>, scene_code |-> <<>>]

ErrPrefix == <<"I","n","v","a","l","i","d"," ","J","A","V"," ","I","D",":"," ">>

\* JavId.from_string: ok = FALSE stands for the raised ValueError(msg)
from_string(s) ==
    LET m == PatSearch(s)
    IN  IF ~m.ok
        THEN [ok |-> FALSE, id |-> NoId, msg |-> ErrPrefix \o s]
        ELSE [ok |-> TRUE,
              id |-> JavId(upper(m.group1), lstrip(m.group2, {"0"})),
              msg |-> <<>>]

\* __eq__ with scene_code left out of the comparison
JavEq_StudioOnly(a, b) == a.studio_code = b.studio_code

\* dataclass-generated __eq__: the field tuples are compared
JavEq(a, b) == <<a.studio_code, a.scene_code>> = <<b.studio_code, b.scene_code>>

\* JavId.__str__
JavStr(j) == as_dvd_id(j)

\* ------------------------------------------------------------------------
\* hash(str): a function of the characters, keyed by the per-process seed
\* ------------------------------------------------------------------------
HashMod == 5
MaxHashSeed == 2

Ord(c) ==
    IF \E i \in 1..26 : LowerLetters[i] = c
    THEN 96 + (CHOOSE i \in 1..26 : LowerLetters[i] = c)
    ELSE IF \E i \in 1..26 : UpperLetters[i] = c
    THEN 64 + (CHOOSE i \in 1..26 : UpperLetters[i] = c)
    ELSE IF c \in DigitClass
    THEN 48 + (CHOOSE d \in 0..9 : ToString(d) = c)
    ELSE 45

RECURSIVE StrHash(_, _)
StrHash(s, seed) ==
    IF s = <<>> THEN seed
    ELSE (StrHash(SubSeq(s, 1, Len(s) - 1), seed) * (seed + 1) + Ord(s[Len(s)])) % HashMod

\* ------------------------------------------------------------------------
\* State
\* ------------------------------------------------------------------------
VARIABLES
    text,       \* from_string: the argument jav_id
    match,      \* from_string: the local `match`
    parsed,     \* from_string: the returned JavId or the raised ValueError
    reparsed,   \* from_string(parsed.as_dvd_id())
    pstage,     \* "input", "parsed", "reparsed"
    hash_seed,  \* the interpreter's string-hash key
    srcA, srcB, \* how identifiers A and B are constructed
    idA, idB,   \* the constructed identifiers (or the raised ValueError)
    eqAB,       \* A == B
    hashA, hashB, \* hash(A), hash(B)
    qstage,     \* "input", "built", "compared"
    pc,                    \* position in __main__
    unmatched_files_info,  \* list of file records {id, filename}
    unmatched_by_jav_id,   \* dict JavId -> list of file records, in insertion order
    idx,               \* position of (jav_id, file_infos) in unmatched_by_jav_id.items()
    fmt,               \* position of jid in jav_id.id_formats()
    potential_scenes,  \* list of scene records {scene_id}
    jav_scene_info,    \* scene record or None
    jav_scrapers,      \* number of items consumed from iter(JavScrapers)
    jav_scraper,       \* the scraper being tried
    file_i,            \* position of file_info in file_infos
    count_good,
    count_bad,
    match_requests,    \* POSTs accepted by /api/files/match: <<file_id, scene_id>>
    trace,             \* remote calls and sleeps made for the current jav_id
    finished,          \* outcome of each jav_id already processed
    failed_call,       \* the call whose exception ended the run
    summary,           \* the final line printed
    tasks,             \* match-by-filename: one future per unmatched file
    results,           \* match-by-filename: what list(executor.map(...)) has collected
    matches_count,     \* match-by-filename: the count printed at the end
    requests_session,  \* match-by-filename: the thread whose request last went through the Session
    posted             \* match-by-filename: POSTs sent to /api/files/match

varsParse == <<text, match, parsed, reparsed, pstage>>
varsPair == <<srcA, srcB, idA, idB, eqAB, hashA, hashB, qstage>>

varsFilter == <<pc, unmatched_files_info, unmatched_by_jav_id>>

varsRun == <<idx, fmt, potential_scenes, jav_scene_info, jav_scrapers, jav_scraper,
             file_i, count_good, count_bad, match_requests, trace, finished,
             failed_call, summary>>

varsMBF == <<tasks, results, matches_count, requests_session, posted>>

vars == <<varsParse, hash_seed, varsPair, varsFilter, varsRun, varsMBF>>

\* JavId.__hash__
JavHash(j) == StrHash(JavStr(j), hash_seed)

NoMatch == [ok |-> FALSE, group1 |-> <<>>, group2 |-> <<>>]
NoResult == [ok |-> FALSE, id |-> NoId, msg |-> <<>>]

\* ------------------------------------------------------------------------
\* Inputs of the parser: frame prefix, letter group, separators, digits,
\* frame suffix
\* ------------------------------------------------------------------------
MaxDigitsLen == 7

DigitAlphabet == {"0", "7"}

Words ==
    { <<"A","B","C","D">>, <<"a","b","c","d">>,
      <<"D","S","V","R">>, <<"d","S","v","r">>,
      <<"A","D","S","V","R">>, <<"A","B","C","D","E","F">>,
      <<"C","z","e","c","h">>,
      <<"A","B","C">>, <<"A","B","C","D","E","F","G">> }

Separators ==
    { <<>>, <<"-">>, <<"_">>, <<".">>, <<" ">>, <<" ","-","\t">>,
      <<"-","_",".">>, <<"-"," ","-">>, <<"+">> }

\* <<prefix, suffix>> around the identifier
Frames ==
    { <<<<>>, <<>>>>,
      <<<<"3">>, <<>>>>,
      <<<<"x">>, <<>>>>,
      <<<<"A","B","-","1","2"," ">>, <<"_","b",".","m","p","4">>>>,
      <<<<>>, <<" ","W","X","Y","Z","7","7","7">>>> }

RECURSIVE StringsOver(_, _)
\* all strings over alphabet of length exactly n
StringsOver(alphabet, n) ==
    IF n = 0 THEN {<<>>}
    ELSE {Append(s, c) : s \in StringsOver(alphabet, n - 1), c \in alphabet}

DigitStrings ==
    UNION {StringsOver(DigitAlphabet, n) : n \in (MinDigits - 1)..MaxDigitsLen}

ParserInputs ==
    { f[1] \o w \o sep \o d \o f[2] :
        f \in Frames, w \in Words, sep \in Separators, d \in DigitStrings }

\* ------------------------------------------------------------------------
\* Parser specification: JavId.from_string on one text, then on its DVD form
\* ------------------------------------------------------------------------
IdleParse ==
    /\ text = <<>>
    /\ match = NoMatch
    /\ parsed = NoResult
    /\ reparsed = NoResult
    /\ pstage = "idle"

NoSrc == [kind |-> "none", text |-> <<>>, studio_code |-> <<>>, scene_code |-> <<>>]

IdlePair ==
    /\ srcA = NoSrc /\ srcB = NoSrc
    /\ idA = NoResult /\ idB = NoResult
    /\ eqAB = FALSE
    /\ hashA = 0 /\ hashB = 0
    /\ qstage = "idle"

IdleFilter ==
    /\ pc = "idle"
    /\ unmatched_files_info = <<>>
    /\ unmatched_by_jav_id = <<>>

NullScene == [scene_id |-> <<>>]
None == [found |-> FALSE, scene |-> NullScene]
Some(scene) == [found |-> TRUE, scene |-> scene]
NoSummary == [printed |-> FALSE, good |-> 0, bad |-> 0]

IdleRun ==
    /\ idx = 0
    /\ fmt = 0
    /\ potential_scenes = <<>>
    /\ jav_scene_info = None
    /\ jav_scrapers = 0
    /\ jav_scraper = "none"
    /\ file_i = 0
    /\ count_good = 0
    /\ count_bad = 0
    /\ match_requests = <<>>
    /\ trace = <<>>
    /\ finished = <<>>
    /\ failed_call = "none"
    /\ summary = NoSummary

IdleMBF ==
    /\ tasks = <<>>
    /\ results = <<>>
    /\ matches_count = 0
    /\ requests_session = 0
    /\ posted = <<>>

InitParse ==
    /\ text \in ParserInputs
    /\ match = NoMatch
    /\ parsed = NoResult
    /\ reparsed = NoResult
    /\ pstage = "input"
    /\ hash_seed = 1
    /\ IdlePair
    /\ IdleFilter
    /\ IdleRun
    /\ IdleMBF

\* JavId.from_string(text)
Parse ==
    /\ pstage = "input"
    /\ match' = PatSearch(text)
    /\ parsed' = from_string(text)
    /\ pstage' = "parsed"
    /\ UNCHANGED <<varsMBF, text, reparsed, hash_seed, varsPair, varsFilter, varsRun>>

\* JavId.from_string(parsed.as_dvd_id())
Reparse ==
    /\ pstage = "parsed"
    /\ parsed.ok
    /\ reparsed' = from_string(as_dvd_id(parsed.id))
    /\ pstage' = "reparsed"
    /\ UNCHANGED <<varsMBF, text, match, parsed, hash_seed, varsPair, varsFilter, varsRun>>

NextParse == Parse \/ Reparse

SpecParse == InitParse /\ [][NextParse]_vars

\* ------------------------------------------------------------------------
\* Pair specification: two identifiers are constructed, from a string or by
\* calling JavId(studio_code, scene_code), then compared and hashed
\* ------------------------------------------------------------------------
TextSrc(t) == [kind |-> "text", text |-> t, studio_code |-> <<>>, scene_code |-> <<>>]
DirectSrc(st, sc) == [kind |-> "direct", text |-> <<>>, studio_code |-> st, scene_code |-> sc]

PairTexts ==
    { <<"A","B","C","D","-","1","2","3">>,
      <<"a","b","c","d","_","0","1","2","3">>,
      <<"A","B"," ","C","D",".","1","2","3">>,
      <<"a","b","c","d","1","2","3">>,
      <<"A","B","C","D",".","1","2","4">>,
      <<"3","D","S","V","R","-","0","1","2","3">>,
      <<"d","s","v","r"," ","1","2","3">>,
      <<"A","B","C","D","-","0","0","0","0">>,
      <<"r","a","n","d","o","m","f","i","l","e">> }

PairDirect ==
    { <<<<"a","b","c","d">>, <<"1","2","3">>>>,
      <<<<" ","A","B","C","D"," ">>, <<" ","0","1","2","3">>>>,
      <<<<"A","B","C","D">>, <<"1","2","a">>>>,
      <<<<"A","B","C","D">>, <<"1","2","A">>>>,
      <<<<"A","B","C","D">>, <<"0">>>>,
      <<<<"D","S","V","R">>, <<"1","2","3">>>>,
      <<<<"3","D","S","V","R">>, <<"0","1","2","3">>>> }

PairSources ==
    {TextSrc(t) : t \in PairTexts} \cup {DirectSrc(d[1], d[2]) : d \in PairDirect}

InitPair ==
    /\ IdleParse
    /\ hash_seed \in 1..MaxHashSeed
    /\ srcA \in PairSources
    /\ srcB \in PairSources
    /\ idA = NoResult /\ idB = NoResult
    /\ eqAB = FALSE
    /\ hashA = 0 /\ hashB = 0
    /\ qstage = "input"
    /\ IdleFilter
    /\ IdleRun
    /\ IdleMBF

\* A = JavId.from_string(...); B = JavId.from_string(...)
BuildFromStrings ==
    /\ qstage = "input"
    /\ srcA.kind = "text" /\ srcB.kind = "text"
    /\ idA' = from_string(srcA.text)
    /\ idB' = from_string(srcB.text)
    /\ qstage' = "built"
    /\ UNCHANGED <<varsMBF, varsParse, varsFilter, varsRun, hash_seed, srcA, srcB, eqAB, hashA, hashB>>

Construct(src) ==
    IF src.kind = "text" THEN from_string(src.text)
    ELSE [ok |-> TRUE, id |-> JavId(src.studio_code, src.scene_code), msg |-> <<>>]

\* at least one of A, B is built by JavId(studio_code=..., scene_code=...)
BuildDirect ==
    /\ qstage = "input"
    /\ srcA.kind = "direct" \/ srcB.kind = "direct"
    /\ idA' = Construct(srcA)
    /\ idB' = Construct(srcB)
    /\ qstage' = "built"
    /\ UNCHANGED <<varsMBF, varsParse, varsFilter, varsRun, hash_seed, srcA, srcB, eqAB, hashA, hashB>>

\* A == B, hash(A), hash(B)
Compare ==
    /\ qstage = "built"
    /\ idA.ok /\ idB.ok
    /\ eqAB' = JavEq(idA.id, idB.id)
    /\ hashA' = JavHash(idA.id)
    /\ hashB' = JavHash(idB.id)
    /\ qstage' = "compared"
    /\ UNCHANGED <<varsMBF, varsParse, varsFilter, varsRun, hash_seed, srcA, srcB, idA, idB>>

NextPair == BuildFromStrings \/ BuildDirect \/ Compare

SpecPair == InitPair /\ [][NextPair]_vars

\* ------------------------------------------------------------------------
\* filter_unmatched_files_by_jav_id
\* ------------------------------------------------------------------------
CzechPrefix == <<"c","z","e","c","h">>

\* position of key in dict d (0 when `key not in d`): a dict probes by
\* hash and then compares with __eq__
DictIndex(d, key) ==
    IF \E i \in 1..Len(d) : JavHash(d[i].key) = JavHash(key) /\ JavEq(d[i].key, key)
    THEN CHOOSE i \in 1..Len(d) : JavHash(d[i].key) = JavHash(key) /\ JavEq(d[i].key, key)
    ELSE 0

\* the loop body with `[f]` assigned instead of appended
FilterStep_Overwrite(d, f) ==
    LET r == from_string(f.filename)
    IN  IF ~r.ok THEN d
        ELSE IF startswith(lower(r.id.studio_code), CzechPrefix) THEN d
        ELSE IF DictIndex(d, r.id) = 0
             THEN Append(d, [key |-> r.id, value |-> <<f>>])
             ELSE [d EXCEPT ![DictIndex(d, r.id)].value = <<f>>]

\* the loop body with the prefix test made on the stored (upper-case) code
FilterStep_NoLower(d, f) ==
    LET r == from_string(f.filename)
    IN  IF ~r.ok THEN d
        ELSE IF startswith(r.id.studio_code, CzechPrefix) THEN d
        ELSE LET d1 == IF DictIndex(d, r.id) = 0
                       THEN Append(d, [key |-> r.id, value |-> <<>>])
                       ELSE d
             IN  [d1 EXCEPT ![DictIndex(d1, r.id)].value = Append(@, f)]

\* one iteration of `for f in unmatched_files_info`
FilterStep(d, f) ==
    LET r == from_string(f.filename)
    IN  IF ~r.ok THEN d
        ELSE IF startswith(lower(r.id.studio_code), CzechPrefix) THEN d
        ELSE LET d1 == IF DictIndex(d, r.id) = 0
                       THEN Append(d, [key |-> r.id, value |-> <<>>])
                       ELSE d
             IN  [d1 EXCEPT ![DictIndex(d1, r.id)].value = Append(@, f)]

RECURSIVE filter_unmatched_files_by_jav_id(_)
filter_unmatched_files_by_jav_id(files) ==
    IF files = <<>> THEN <<>>
    ELSE FilterStep(filter_unmatched_files_by_jav_id(SubSeq(files, 1, Len(files) - 1)),
                    files[Len(files)])

\* ---- inputs
MaxFiles == 4

FN_ABCD_001 == <<"A","B","C","D","-","0","0","1",".","m","p","4">>
FN_abcd001_b == <<"a","b","c","d","0","0","1","_","b",".","m","p","4">>
FN_WXYZ_002 == <<"W","X","Y","Z","-","0","0","2",".","m","p","4">>
FN_randomfile == <<"r","a","n","d","o","m","f","i","l","e",".","m","p","4">>
FN_czech_123 == <<"c","z","e","c","h","-","1","2","3",".","m","p","4">>
FN_CzechV_045 == <<"C","z","e","c","h","V","_","0","4","5",".","m","p","4">>
FN_dsvr_0012 == <<"d","s","v","r","-","0","0","1","2",".","m","p","4">>

FilterFilenames ==
    {FN_ABCD_001, FN_abcd001_b, FN_WXYZ_002, FN_randomfile,
     FN_czech_123, FN_CzechV_045, FN_dsvr_0012}

\* file records: the server numbers them, ids are distinct
FileLists(names, maxlen) ==
    UNION { { [i \in 1..n |-> [id |-> i, filename |-> fs[i]]] : fs \in [1..n -> names] } :
            n \in 0..maxlen }

\* ------------------------------------------------------------------------
\* Filter specification: the grouping applied to a list of file records
\* ------------------------------------------------------------------------
InitFilter ==
    /\ IdleParse
    /\ IdlePair
    /\ hash_seed \in 1..MaxHashSeed
    /\ pc = "filter_input"
    /\ unmatched_files_info \in FileLists(FilterFilenames, MaxFiles)
    /\ unmatched_by_jav_id = <<>>
    /\ IdleRun
    /\ IdleMBF

\* unmatched_by_jav_id = filter_unmatched_files_by_jav_id(unmatched_files_info)
ApplyFilter ==
    /\ pc = "filter_input"
    /\ unmatched_by_jav_id' = filter_unmatched_files_by_jav_id(unmatched_files_info)
    /\ pc' = "filtered"
    /\ UNCHANGED <<varsMBF, varsParse, varsPair, varsRun, hash_seed, unmatched_files_info>>

NextFilter == ApplyFilter

SpecFilter == InitFilter /\ [][NextFilter]_vars

\* ------------------------------------------------------------------------
\* attempt-jav-file-match.py: get_scene_for_jav_id and __main__
\* ------------------------------------------------------------------------
JAV_SCRAPE_TIMEOUT == 12
SleepSeconds == 10

\* enum JavScrapers, in definition order
JavScrapers == <<"javdatabase", "r18d", "javlibrary">>

\* the function without the `scene_id == jav_id` test
get_scene_for_jav_id_NoEq(jav_id, scenes) ==
    IF scenes = <<>> THEN None
    ELSE IF ~from_string(Head(scenes).scene_id).ok THEN None
    ELSE Some(Head(scenes))

RECURSIVE get_scene_for_jav_id(_, _)
get_scene_for_jav_id(jav_id, scenes) ==
    IF scenes = <<>> THEN None
    ELSE LET r == from_string(Head(scenes).scene_id)
         IN  IF ~r.ok THEN None
             ELSE IF JavEq(r.id, jav_id) THEN Some(Head(scenes))
             ELSE get_scene_for_jav_id(jav_id, Tail(scenes))

\* ---- what the server may answer
MaxRunFiles == 2
MaxResults == 1

RunFilenames == {FN_ABCD_001, FN_abcd001_b, FN_dsvr_0012, FN_randomfile}

SC_ABCD_001 == [scene_id |-> <<"A","B","C","D","-","0","0","1">>]
SC_abcd00001 == [scene_id |-> <<"a","b","c","d","0","0","0","0","1">>]
SC_slr_42 == [scene_id |-> <<"s","l","r","-","4","2">>]

Scenes == {SC_ABCD_001, SC_abcd00001, SC_slr_42}

\* the "scenes" array of a search response (empty when "results" is 0)
Responses ==
    UNION { [1..n -> Scenes] : n \in 0..MaxResults }

\* the loop variables jav_id, file_infos
CurJavId == unmatched_by_jav_id[idx].key
CurFiles == unmatched_by_jav_id[idx].value

InitRun ==
    /\ IdleParse
    /\ IdlePair
    /\ hash_seed \in 1..MaxHashSeed
    /\ pc = "start"
    /\ unmatched_files_info = <<>>
    /\ unmatched_by_jav_id = <<>>
    /\ IdleRun
    /\ IdleMBF

\* lines 273-283: the list request answers 200; the files are grouped
FetchList ==
    /\ pc = "start"
    /\ \E files \in FileLists(RunFilenames, MaxRunFiles) :
          /\ unmatched_files_info' = files
          /\ unmatched_by_jav_id' = filter_unmatched_files_by_jav_id(files)
    /\ idx' = 1
    /\ pc' = "for_id"
    /\ UNCHANGED <<varsMBF, varsParse, varsPair, hash_seed, fmt, potential_scenes,
                   jav_scene_info, jav_scrapers, jav_scraper, file_i, count_good,
                   count_bad, match_requests, trace, finished, failed_call, summary>>

\* lines 276-279: the list request fails, sys.exit(1)
FetchListFails ==
    /\ pc = "start"
    /\ pc' = "exit1"
    /\ failed_call' = "list"
    /\ UNCHANGED <<varsMBF, varsParse, varsPair, hash_seed, unmatched_files_info,
                   unmatched_by_jav_id, idx, fmt, potential_scenes, jav_scene_info,
                   jav_scrapers, jav_scraper, file_i, count_good, count_bad,
                   match_requests, trace, finished, summary>>

\* lines 287-292: the next (jav_id, file_infos) of the dict
BeginIdentifier ==
    /\ pc = "for_id"
    /\ idx <= Len(unmatched_by_jav_id)
    /\ potential_scenes' = <<>>
    /\ fmt' = 1
    /\ trace' = <<>>
    /\ pc' = "search0"
    /\ UNCHANGED <<varsMBF, varsParse, varsPair, hash_seed, unmatched_files_info,
                   unmatched_by_jav_id, idx, jav_scene_info, jav_scrapers,
                   jav_scraper, file_i, count_good, count_bad, match_requests,
                   finished, failed_call, summary>>

\* lines 323-324: the dict is exhausted, the summary is printed
PrintSummary ==
    /\ pc = "for_id"
    /\ idx > Len(unmatched_by_jav_id)
    /\ summary' = [printed |-> TRUE, good |-> count_good, bad |-> count_bad]
    /\ pc' = "done"
    /\ UNCHANGED <<varsMBF, varsParse, varsPair, hash_seed, unmatched_files_info,
                   unmatched_by_jav_id, idx, fmt, potential_scenes, jav_scene_info,
                   jav_scrapers, jav_scraper, file_i, count_good, count_bad,
                   match_requests, trace, finished, failed_call>>

\* lines 293-297: one get_scenes_for_id of the initial lookup; after the last
\* format the scene is looked for and the scraper iterator is created
SearchInitial ==
    /\ pc = "search0"
    /\ \E resp \in Responses :
          LET scenes == potential_scenes \o resp
          IN  /\ potential_scenes' = scenes
              /\ IF fmt = Len(id_formats(CurJavId))
                 THEN /\ jav_scene_info' = get_scene_for_jav_id(CurJavId, scenes)
                      /\ jav_scrapers' = 0
                      /\ pc' = "while"
                      /\ fmt' = fmt
                 ELSE /\ fmt' = fmt + 1
                      /\ UNCHANGED <<jav_scene_info, jav_scrapers, pc>>
    /\ trace' = Append(trace, <<"search", id_formats(CurJavId)[fmt]>>)
    /\ UNCHANGED <<varsMBF, varsParse, varsPair, hash_seed, unmatched_files_info,
                   unmatched_by_jav_id, idx, jav_scraper, file_i, count_good,
                   count_bad, match_requests, finished, failed_call, summary>>

\* the same step taken whether or not a scene was found
NextScraper_IgnoresFound ==
    /\ pc = "while"
    /\ jav_scrapers < Len(JavScrapers)
    /\ jav_scraper' = JavScrapers[jav_scrapers + 1]
    /\ jav_scrapers' = jav_scrapers + 1
    /\ pc' = "scrape"
    /\ UNCHANGED <<varsMBF, varsParse, varsPair, hash_seed, unmatched_files_info,
                   unmatched_by_jav_id, idx, fmt, potential_scenes, jav_scene_info,
                   file_i, count_good, count_bad, match_requests, trace, finished,
                   failed_call, summary>>

\* lines 299-305: no scene yet, next(jav_scrapers) yields a scraper
NextScraper ==
    /\ pc = "while"
    /\ ~jav_scene_info.found
    /\ jav_scrapers < Len(JavScrapers)
    /\ jav_scraper' = JavScrapers[jav_scrapers + 1]
    /\ jav_scrapers' = jav_scrapers + 1
    /\ pc' = "scrape"
    /\ UNCHANGED <<varsMBF, varsParse, varsPair, hash_seed, unmatched_files_info,
                   unmatched_by_jav_id, idx, fmt, potential_scenes, jav_scene_info,
                   file_i, count_good, count_bad, match_requests, trace, finished,
                   failed_call, summary>>

\* the same step with the StopIteration of next() left uncaught
Exhausted_Uncaught ==
    /\ pc = "while"
    /\ ~jav_scene_info.found
    /\ jav_scrapers = Len(JavScrapers)
    /\ pc' = "crashed"
    /\ failed_call' = "StopIteration"
    /\ UNCHANGED <<varsMBF, varsParse, varsPair, hash_seed, unmatched_files_info,
                   unmatched_by_jav_id, idx, fmt, potential_scenes, jav_scene_info,
                   jav_scrapers, jav_scraper, file_i, count_good, count_bad,
                   match_requests, trace, finished, summary>>

\* lines 299-303, 313-316: no scene, next() raises StopIteration, break;
\* count_bad += 1; continue
Exhausted ==
    /\ pc = "while"
    /\ ~jav_scene_info.found
    /\ jav_scrapers = Len(JavScrapers)
    /\ count_bad' = count_bad + 1
    /\ finished' = Append(finished, [outcome |-> "exhausted", trace |-> trace])
    /\ idx' = idx + 1
    /\ pc' = "for_id"
    /\ UNCHANGED <<varsMBF, varsParse, varsPair, hash_seed, unmatched_files_info,
                   unmatched_by_jav_id, fmt, potential_scenes, jav_scene_info,
                   jav_scrapers, jav_scraper, file_i, count_good, match_requests,
                   trace, failed_call, summary>>

\* lines 181-200, 306-308: the scrape request answers 200, then the sleep
Scrape ==
    /\ pc = "scrape"
    /\ LET scrape_id == IF jav_scraper = "r18d" THEN as_content_id(CurJavId)
                        ELSE as_dvd_id(CurJavId)
       IN  trace' = trace \o << <<"scrape", jav_scraper, scrape_id>>,
                                <<"sleep", SleepSeconds>> >>
    /\ potential_scenes' = <<>>
    /\ fmt' = 1
    /\ pc' = "search1"
    /\ UNCHANGED <<varsMBF, varsParse, varsPair, hash_seed, unmatched_files_info,
                   unmatched_by_jav_id, idx, jav_scene_info, jav_scrapers,
                   jav_scraper, file_i, count_good, count_bad, match_requests,
                   finished, failed_call, summary>>

\* lines 309-311: one get_scenes_for_id after a scrape; the scene is looked
\* for after every format
SearchAgain ==
    /\ pc = "search1"
    /\ \E resp \in Responses :
          LET scenes == potential_scenes \o resp
          IN  /\ potential_scenes' = scenes
              /\ jav_scene_info' = get_scene_for_jav_id(CurJavId, scenes)
    /\ IF fmt = Len(id_formats(CurJavId))
       THEN pc' = "while" /\ fmt' = fmt
       ELSE pc' = pc /\ fmt' = fmt + 1
    /\ trace' = Append(trace, <<"search", id_formats(CurJavId)[fmt]>>)
    /\ UNCHANGED <<varsMBF, varsParse, varsPair, hash_seed, unmatched_files_info,
                   unmatched_by_jav_id, idx, jav_scrapers, jav_scraper, file_i,
                   count_good, count_bad, match_requests, finished, failed_call,
                   summary>>

\* lines 299, 313, 318-319: a scene was found, the while loop is left
Found ==
    /\ pc = "while"
    /\ jav_scene_info.found
    /\ file_i' = 1
    /\ pc' = "match"
    /\ UNCHANGED <<varsMBF, varsParse, varsPair, hash_seed, unmatched_files_info,
                   unmatched_by_jav_id, idx, fmt, potential_scenes, jav_scene_info,
                   jav_scrapers, jav_scraper, count_good, count_bad, match_requests,
                   trace, finished, failed_call, summary>>

\* lines 202-213, 319-320: the match request for one file answers 200
MatchFile ==
    /\ pc = "match"
    /\ file_i <= Len(CurFiles)
    /\ match_requests' =
          Append(match_requests, <<CurFiles[file_i].id, jav_scene_info.scene.scene_id>>)
    /\ trace' = Append(trace, <<"match", CurFiles[file_i].id>>)
    /\ file_i' = file_i + 1
    /\ UNCHANGED <<varsMBF, varsParse, varsPair, hash_seed, varsFilter, idx, fmt,
                   potential_scenes, jav_scene_info, jav_scrapers, jav_scraper,
                   count_good, count_bad, finished, failed_call, summary>>

\* line 321: all files were matched, count_good += 1
FinishMatched ==
    /\ pc = "match"
    /\ file_i > Len(CurFiles)
    /\ count_good' = count_good + 1
    /\ finished' = Append(finished, [outcome |-> "found", trace |-> trace])
    /\ idx' = idx + 1
    /\ pc' = "for_id"
    /\ UNCHANGED <<varsMBF, varsParse, varsPair, hash_seed, unmatched_files_info,
                   unmatched_by_jav_id, fmt, potential_scenes, jav_scene_info,
                   jav_scrapers, jav_scraper, file_i, count_bad, match_requests,
                   trace, failed_call, summary>>

CallAt(p) ==
    CASE p = "search0" -> "search"
      [] p = "search1" -> "search"
      [] p = "scrape" -> "scrape"
      [] p = "match" -> "match"
      [] OTHER -> "none"

\* lines 173-174, 195-196, 212-213: a request of the loop answers non-200,
\* the Exception is raised and nothing in lines 287-321 catches it
RemoteFailure ==
    /\ pc \in {"search0", "search1", "scrape", "match"}
    /\ pc = "match" => file_i <= Len(CurFiles)
    /\ failed_call' = CallAt(pc)
    /\ pc' = "crashed"
    /\ UNCHANGED <<varsMBF, varsParse, varsPair, hash_seed, unmatched_files_info,
                   unmatched_by_jav_id, idx, fmt, potential_scenes, jav_scene_info,
                   jav_scrapers, jav_scraper, file_i, count_good, count_bad,
                   match_requests, trace, finished, summary>>

NextRun ==
    \/ FetchList \/ FetchListFails
    \/ BeginIdentifier \/ PrintSummary
    \/ SearchInitial \/ NextScraper \/ Exhausted \/ Scrape \/ SearchAgain
    \/ Found \/ MatchFile \/ FinishMatched
    \/ RemoteFailure

SpecRun == InitRun /\ [][NextRun]_vars

\* ------------------------------------------------------------------------
\* match-by-filename.py
\* File names are base names (the file record's "filename"); a thread is
\* named by the position of its file, the main thread by 0.
\* ------------------------------------------------------------------------
\* [a-z0-9]
AlnumClass == {LowerLetters[i] : i \in 1..26} \cup DigitClass

RECURSIVE SkipNonAlnum(_)
SkipNonAlnum(s) ==
    IF s = <<>> \/ Head(s) \in AlnumClass THEN s ELSE SkipNonAlnum(Tail(s))

RECURSIVE CLEAN_FILENAME_sub(_)
\* CLEAN_FILENAME.sub(" ", s): every run of [^a-z0-9]+ becomes one space
CLEAN_FILENAME_sub(s) ==
    IF s = <<>> THEN <<>>
    ELSE IF Head(s) \in AlnumClass THEN <<Head(s)>> \o CLEAN_FILENAME_sub(Tail(s))
    ELSE <<" ">> \o CLEAN_FILENAME_sub(SkipNonAlnum(s))

\* str.rfind("."), 1-based, 0 when absent
LastDot(s) ==
    IF \E k \in 1..Len(s) : s[k] = "."
    THEN CHOOSE k \in 1..Len(s) : s[k] = "." /\ \A m \in (k + 1)..Len(s) : s[m] # "."
    ELSE 0

\* pathlib.Path(name).stem: the suffix starts at the last dot, unless that
\* dot is the first or the last character
stem(name) ==
    LET k == LastDot(name)
    IN  IF 1 < k /\ k < Len(name) THEN SubSeq(name, 1, k - 1) ELSE name

\* the expression of lines 95 and 96
clean_stem(name) == CLEAN_FILENAME_sub(lower(stem(name)))

\* json.loads(scene_info.get("filenames_arr")) or []
get_known_filenames_for_scene(scene_info) ==
    CASE scene_info.filenames_arr.json = "list" ->
            [ok |-> TRUE, filenames |-> scene_info.filenames_arr.names]
      [] scene_info.filenames_arr.json = "null" ->
            [ok |-> TRUE, filenames |-> <<>>]
      [] OTHER -> [ok |-> FALSE, filenames |-> <<>>]

scene_has_known_filename(scene_info, file_info) ==
    LET known == get_known_filenames_for_scene(scene_info).filenames
    IN  \E n \in 1..Len(known) :
            clean_stem(known[n]) = clean_stem(file_info.filename)

NoHit == [outcome |-> "none", k |-> 0]

RECURSIVE scan_scenes_LastWins(_, _, _)
\* the loop without the return of line 127: the last matching scene is kept
scan_scenes_LastWins(scenes, file_info, k) ==
    IF k > Len(scenes) THEN NoHit
    ELSE IF ~get_known_filenames_for_scene(scenes[k]).ok
         THEN [outcome |-> "raise", k |-> k]
    ELSE LET rest == scan_scenes_LastWins(scenes, file_info, k + 1)
         IN  IF rest.outcome # "none" THEN rest
             ELSE IF scene_has_known_filename(scenes[k], file_info)
                  THEN [outcome |-> "match", k |-> k]
             ELSE NoHit

RECURSIVE scan_scenes(_, _, _)
\* lines 122-128: the scenes are tried in order from position k; the loop
\* ends at the first scene with the file as a known filename, or with the
\* exception of json.loads
scan_scenes(scenes, file_info, k) ==
    IF k > Len(scenes) THEN NoHit
    ELSE IF ~get_known_filenames_for_scene(scenes[k]).ok
         THEN [outcome |-> "raise", k |-> k]
    ELSE IF scene_has_known_filename(scenes[k], file_info)
         THEN [outcome |-> "match", k |-> k]
    ELSE scan_scenes(scenes, file_info, k + 1)

\* ThreadPoolExecutor(): max_workers = min(32, cpu_count + 4), at least 5
max_workers == 5

\* ---- inputs
MaxMbfFiles == 2

FN_My_Scene == <<"M","y",".","S","c","e","n","e","-","0","1",".","M","P","4">>
FN_other == <<"o","t","h","e","r",".","m","p","4">>
FN_noext == <<"_","n","o","e","x","t">>

MbfFilenames == {FN_My_Scene, FN_other, FN_noext}

JsonList(names) == [json |-> "list", names |-> names]

\* known name my_scene__01.mkv
MS_under ==
    [scene_id |-> <<"u">>,
     filenames_arr |-> JsonList(<< <<"m","y","_","s","c","e","n","e","_","_","0","1",".","m","k","v">> >>)]
\* known names zzz.mp4, MY SCENE 01.avi
MS_upper ==
    [scene_id |-> <<"U">>,
     filenames_arr |-> JsonList(<< <<"z","z","z",".","m","p","4">>,
                                  <<"M","Y"," ","S","C","E","N","E"," ","0","1",".","a","v","i">> >>)]
\* known names My.Scene-01 (no extension: stem "My"), -NoExt.tmp
MS_stems ==
    [scene_id |-> <<"s">>,
     filenames_arr |-> JsonList(<< <<"M","y",".","S","c","e","n","e","-","0","1">>,
                                  <<"-","N","o","E","x","t",".","t","m","p">> >>)]
\* known name OTHER.MKV
MS_other ==
    [scene_id |-> <<"o">>,
     filenames_arr |-> JsonList(<< <<"O","T","H","E","R",".","M","K","V">> >>)]
\* "filenames_arr": "null"
MS_null == [scene_id |-> <<"n">>, filenames_arr |-> [json |-> "null", names |-> <<>>]]
\* "filenames_arr" absent or not JSON
MS_invalid == [scene_id |-> <<"x">>, filenames_arr |-> [json |-> "invalid", names |-> <<>>]]

\* the "scenes" array of a search response (empty when "results" is 0)
MbfResponses ==
    { <<>>,
      <<MS_under>>,
      <<MS_null, MS_upper, MS_under>>,
      <<MS_stems, MS_other>>,
      <<MS_other, MS_invalid, MS_under>>,
      <<MS_invalid>> }

NullMbfScene == [scene_id |-> <<>>, filenames_arr |-> [json |-> "null", names |-> <<>>]]
MbfNone == [found |-> FALSE, scene |-> NullMbfScene]
MbfSome(scene) == [found |-> TRUE, scene |-> scene]

\* a future just submitted
PendingTask ==
    [state |-> "pending", potential_scenes |-> <<>>, k |-> 0, result |-> MbfNone,
     session_seen |-> 0, invalid_response |-> FALSE]

Busy(i) == tasks[i].state \in {"running", "matching"}

InitMBF ==
    /\ IdleParse
    /\ IdlePair
    /\ hash_seed = 1
    /\ pc = "main"
    /\ unmatched_files_info = <<>>
    /\ unmatched_by_jav_id = <<>>
    /\ IdleRun
    /\ IdleMBF

\* lines 135-150: the list request answers 200 with files; executor.map
\* submits one call per file
MbfGetList ==
    /\ pc = "main"
    /\ \E files \in FileLists(MbfFilenames, MaxMbfFiles) :
          /\ files # <<>>
          /\ unmatched_files_info' = files
          /\ tasks' = [i \in 1..Len(files) |-> PendingTask]
    /\ requests_session' = 0
    /\ pc' = "collect"
    /\ UNCHANGED <<varsParse, varsPair, hash_seed, varsRun, unmatched_by_jav_id,
                   results, matches_count, posted>>

\* lines 138-143: the list request fails, or the list is empty: sys.exit
MbfNothingToDo ==
    /\ pc = "main"
    /\ requests_session' = 0
    /\ pc' = "exit"
    /\ UNCHANGED <<varsParse, varsPair, hash_seed, varsRun, unmatched_files_info,
                   unmatched_by_jav_id, tasks, results, matches_count, posted>>

\* a pool thread takes the next work item of the queue
StartTask ==
    \E i \in 1..Len(tasks) :
        /\ pc \in {"collect", "shutdown"}
        /\ tasks[i].state = "pending"
        /\ \A j \in 1..(i - 1) : tasks[j].state # "pending"
        /\ Cardinality({j \in 1..Len(tasks) : Busy(j)}) < max_workers
        /\ tasks' = [tasks EXCEPT ![i].state = "running"]
        /\ UNCHANGED <<varsParse, varsPair, hash_seed, varsRun, varsFilter,
                       results, matches_count, requests_session, posted>>

\* lines 120-128 up to the match request: search_scenes answers 200 with
\* scenes, which are scanned for a known filename
SearchScenes ==
    \E i \in 1..Len(tasks) :
        /\ tasks[i].state = "running"
        /\ \E scenes \in MbfResponses :
              LET hit == scan_scenes(scenes, unmatched_files_info[i], 1)
              IN  tasks' = [tasks EXCEPT
                      ![i].potential_scenes = scenes,
                      ![i].k = hit.k,
                      ![i].session_seen = requests_session,
                      ![i].state = CASE hit.outcome = "match" -> "matching"
                                     [] hit.outcome = "none" -> "returned"
                                     [] OTHER -> "raised"]
        /\ requests_session' = i
        /\ UNCHANGED <<varsParse, varsPair, hash_seed, varsRun, varsFilter,
                       results, matches_count, posted>>

\* lines 54-56: the search answer is not JSON; search_scenes prints
\* **INVALID RESPONSE and returns []
SearchInvalidJson ==
    \E i \in 1..Len(tasks) :
        /\ tasks[i].state = "running"
        /\ tasks' = [tasks EXCEPT ![i].session_seen = requests_session,
                                  ![i].invalid_response = TRUE,
                                  ![i].state = "returned"]
        /\ requests_session' = i
        /\ UNCHANGED <<varsParse, varsPair, hash_seed, varsRun, varsFilter,
                       results, matches_count, posted>>

\* lines 47-48: the search answers another status; the Exception is not caught
SearchFails ==
    \E i \in 1..Len(tasks) :
        /\ tasks[i].state = "running"
        /\ tasks' = [tasks EXCEPT ![i].session_seen = requests_session,
                                  ![i].state = "raised"]
        /\ requests_session' = i
        /\ UNCHANGED <<varsParse, varsPair, hash_seed, varsRun, varsFilter,
                       results, matches_count, posted>>

MatchPost(i, status) ==
    [file_id |-> unmatched_files_info[i].id,
     scene_id |-> tasks[i].potential_scenes[tasks[i].k].scene_id,
     thread |-> i, k |-> tasks[i].k, status |-> status]

\* lines 126-127: match_file_to_scene answers 200; the scene is returned
MbfMatch ==
    \E i \in 1..Len(tasks) :
        /\ tasks[i].state = "matching"
        /\ posted' = Append(posted, MatchPost(i, 200))
        /\ tasks' = [tasks EXCEPT
              ![i].session_seen = requests_session,
              ![i].result = MbfSome(tasks[i].potential_scenes[tasks[i].k]),
              ![i].state = "returned"]
        /\ requests_session' = i
        /\ UNCHANGED <<varsParse, varsPair, hash_seed, varsRun, varsFilter,
                       results, matches_count>>

\* lines 109-110: the match request answers another status
MbfMatchFails ==
    \E i \in 1..Len(tasks) :
        /\ tasks[i].state = "matching"
        /\ posted' = Append(posted, MatchPost(i, 500))
        /\ tasks' = [tasks EXCEPT ![i].session_seen = requests_session,
                                  ![i].state = "raised"]
        /\ requests_session' = i
        /\ UNCHANGED <<varsParse, varsPair, hash_seed, varsRun, varsFilter,
                       results, matches_count>>

\* list(executor.map(...)) takes the result of the next future, in order
Collect ==
    /\ pc = "collect"
    /\ Len(results) < Len(tasks)
    /\ tasks[Len(results) + 1].state = "returned"
    /\ results' = Append(results, tasks[Len(results) + 1].result)
    /\ UNCHANGED <<varsParse, varsPair, hash_seed, varsRun, varsFilter,
                   tasks, matches_count, requests_session, posted>>

\* the next future raised: result() re-raises, the futures still pending
\* are cancelled
CollectRaises ==
    /\ pc = "collect"
    /\ Len(results) < Len(tasks)
    /\ tasks[Len(results) + 1].state = "raised"
    /\ tasks' = [i \in 1..Len(tasks) |->
                    IF tasks[i].state = "pending"
                    THEN [tasks[i] EXCEPT !.state = "cancelled"]
                    ELSE tasks[i]]
    /\ pc' = "shutdown"
    /\ UNCHANGED <<varsParse, varsPair, hash_seed, varsRun, unmatched_files_info,
                   unmatched_by_jav_id, results, matches_count, requests_session, posted>>

\* leaving the with block on the exception: shutdown(wait=True) returns when
\* no call is running, then the exception ends the script
Shutdown ==
    /\ pc = "shutdown"
    /\ \A i \in 1..Len(tasks) : ~Busy(i)
    /\ pc' = "traceback"
    /\ UNCHANGED <<varsParse, varsPair, hash_seed, varsRun, unmatched_files_info,
                   unmatched_by_jav_id, varsMBF>>

\* lines 152-154
PrintCount ==
    /\ pc = "collect"
    /\ Len(results) = Len(tasks)
    /\ matches_count' = Len(SelectSeq(results, LAMBDA r : r.found))
    /\ pc' = "printed"
    /\ UNCHANGED <<varsParse, varsPair, hash_seed, varsRun, unmatched_files_info,
                   unmatched_by_jav_id, tasks, results, requests_session, posted>>

NextMBF ==
    \/ MbfGetList \/ MbfNothingToDo
    \/ StartTask
    \/ SearchScenes \/ SearchInvalidJson \/ SearchFails
    \/ MbfMatch \/ MbfMatchFails
    \/ Collect \/ CollectRaises \/ Shutdown \/ PrintCount

SpecMBF == InitMBF /\ [][NextMBF]_vars

\* ------------------------------------------------------------------------
\* Properties of the identifier (checked under SpecPair and SpecParse)
\* ------------------------------------------------------------------------
T_ABCD_123 == <<"A","B","C","D","-","1","2","3">>
T_abcd_0123 == <<"a","b","c","d","_","0","1","2","3">>
T_AB_CD_123 == <<"A","B"," ","C","D",".","1","2","3">>
T_abcd123 == <<"a","b","c","d","1","2","3">>

C1Inputs == {T_ABCD_123, T_abcd_0123, T_AB_CD_123, T_abcd123}
C1Parsing == {T_ABCD_123, T_abcd_0123, T_abcd123}

Built == qstage \in {"built", "compared"}
BothText == srcA.kind = "text" /\ srcB.kind = "text"

\* C1 (as stated): from_string succeeds on each of "ABCD-123", "abcd_0123",
\* "AB CD.123" and "abcd123", and the resulting identifiers are pairwise
\* equal, with the same fields and the same DVD-form string.
C1_FourInputsEqual ==
    (Built /\ BothText /\ srcA.text \in C1Inputs /\ srcB.text \in C1Inputs)
        => /\ idA.ok /\ idB.ok
           /\ idA.id = idB.id
           /\ as_dvd_id(idA.id) = as_dvd_id(idB.id)
           /\ (qstage = "compared" => eqAB)

\* C1 (amended): from_string succeeds on "ABCD-123", "abcd_0123" and
\* "abcd123" and the three identifiers are pairwise equal (ABCD, 123; DVD
\* form ABCD-123); on "AB CD.123" it raises ValueError carrying the input.
C1_ThreeInputsEqual ==
    /\ (Built /\ BothText /\ srcA.text \in C1Parsing /\ srcB.text \in C1Parsing)
        => /\ idA.ok /\ idB.ok
           /\ idA.id = idB.id
           /\ idA.id.studio_code = <<"A","B","C","D">>
           /\ idA.id.scene_code = <<"1","2","3">>
           /\ as_dvd_id(idA.id) = T_ABCD_123
           /\ as_dvd_id(idB.id) = T_ABCD_123
           /\ (qstage = "compared" => eqAB)
    /\ (Built /\ srcA.kind = "text" /\ srcA.text = T_AB_CD_123)
        => (~idA.ok /\ idA.msg = ErrPrefix \o T_AB_CD_123)
    /\ (Built /\ srcB.kind = "text" /\ srcB.text = T_AB_CD_123)
        => (~idB.ok /\ idB.msg = ErrPrefix \o T_AB_CD_123)

C1_Witness ==
    /\ qstage = "compared"
    /\ srcA.text = T_ABCD_123
    /\ srcB.text = T_abcd_0123
    /\ eqAB

\* C4 (as stated): for identifiers built by from_string or directly,
\* A == B iff A.as_dvd_id() == B.as_dvd_id(), and A == B implies
\* hash(A) == hash(B).
C4_EqIffDvdEqual ==
    qstage = "compared"
        => /\ eqAB <=> (as_dvd_id(idA.id) = as_dvd_id(idB.id))
           /\ eqAB => hashA = hashB

\* C4 (amended): A == B implies equal DVD forms and equal hashes for any two
\* identifiers; equal DVD forms imply A == B when both identifiers come from
\* from_string.
C4_EqImpliesDvdEqual ==
    qstage = "compared"
        => /\ eqAB => (as_dvd_id(idA.id) = as_dvd_id(idB.id) /\ hashA = hashB)
           /\ (BothText /\ as_dvd_id(idA.id) = as_dvd_id(idB.id)) => eqAB

C4_Witness ==
    /\ qstage = "compared"
    /\ BothText
    /\ srcA.text # srcB.text
    /\ eqAB
    /\ hashA = hashB
    /\ idA.id.studio_code = CanonDSVR

\* ---- independent statements of stripping and padding
RECURSIVE DropZeros(_)
DropZeros(s) == IF s # <<>> /\ Head(s) = "0" THEN DropZeros(Tail(s)) ELSE s

RECURSIVE PadLeft(_, _)
PadLeft(s, w) == IF Len(s) < w THEN PadLeft(<<"0">> \o s, w) ELSE s

Parsed == pstage \in {"parsed", "reparsed"} /\ parsed.ok

\* C2: for every identifier J produced by from_string,
\* from_string(J.as_dvd_id()) succeeds and returns an identifier equal to J.
C2_RoundTrip ==
    pstage = "reparsed"
        => /\ reparsed.ok
           /\ JavEq(reparsed.id, parsed.id)

C2_Witness ==
    /\ pstage = "reparsed"
    /\ parsed.id.studio_code = CanonDSVR
    /\ parsed.id.scene_code = <<"0","0","0">>
    /\ Len(match.group2) = 6
    /\ reparsed.ok

MatchedDSVR ==
    /\ Len(match.group1) = 4
    /\ match.group1[1] \in {"D", "d"}
    /\ match.group1[2] \in {"S", "s"}
    /\ match.group1[3] \in {"V", "v"}
    /\ match.group1[4] \in {"R", "r"}

\* C3: when the matched letter group is DSVR in any case, the studio code is
\* 3DSVR, the DVD form is "3DSVR-" + number padded to 4 and the Content-ID
\* form is "13DSVR" + number padded to 5; otherwise the DVD form pads to 3
\* and the Content-ID form is the studio code + number padded to 5.
C3_AliasRule ==
    Parsed =>
        LET num == DropZeros(match.group2)
            j == parsed.id
        IN  IF MatchedDSVR
            THEN /\ j.studio_code = <<"3","D","S","V","R">>
                 /\ as_dvd_id(j) = <<"3","D","S","V","R","-">> \o PadLeft(num, 4)
                 /\ as_content_id(j) = <<"1","3","D","S","V","R">> \o PadLeft(num, 5)
            ELSE /\ as_dvd_id(j) = j.studio_code \o <<"-">> \o PadLeft(num, 3)
                 /\ as_content_id(j) = j.studio_code \o PadLeft(num, 5)

C3_Witness ==
    /\ Parsed
    /\ text[1] = "3"
    /\ match.group1 = <<"d","S","v","r">>
    /\ as_dvd_id(parsed.id) = <<"3","D","S","V","R","-","0","0","0","7">>
    /\ as_content_id(parsed.id) = <<"1","3","D","S","V","R","0","0","0","0","7">>

\* C5: every identifier returned by from_string has an upper-case studio
\* code without surrounding whitespace and a scene code of 3 to 6 digits
\* with no leading zero unless its length is exactly 3: the matched digits
\* with leading zeros dropped, padded to width 3.
C5_StoredForm ==
    Parsed =>
        LET st == parsed.id.studio_code
            sc == parsed.id.scene_code
        IN  /\ st # <<>>
            /\ \A i \in 1..Len(st) :
                  st[i] \notin {LowerLetters[k] : k \in 1..26} \cup SpaceClass
            /\ \A i \in 1..Len(sc) : sc[i] \in DigitClass
            /\ Len(sc) >= 3 /\ Len(sc) <= 6
            /\ (Len(sc) # 3 => sc[1] # "0")
            /\ sc = PadLeft(DropZeros(match.group2), 3)

C5_Witness ==
    /\ Parsed
    /\ match.group1 = <<"a","b","c","d">>
    /\ match.group2 = <<"0","0","0","0","7","0">>
    /\ parsed.id.studio_code = <<"A","B","C","D">>
    /\ parsed.id.scene_code = <<"0","7","0">>

\* ---- the matching rule, stated on the text
RECURSIVE SkipOver(_, _, _)
SkipOver(s, p, cls) ==
    IF p <= Len(s) /\ s[p] \in cls THEN SkipOver(s, p + 1, cls) ELSE p

\* first digit after separators and whitespace in any order
AfterAnyOrder(s, p) == SkipOver(s, p, SepClass \cup SpaceClass)

\* first digit after whitespace, then separators, then whitespace
AfterOrdered(s, p) ==
    SkipOver(s, SkipOver(s, SkipOver(s, p, SpaceClass), SepClass), SpaceClass)

LettersAt(s, i, n) ==
    /\ (i = 1 \/ s[i - 1] \notin LetterClass)
    /\ i + n - 1 <= Len(s)
    /\ \A k \in i..(i + n - 1) : s[k] \in LetterClass

\* an occurrence at i with n letters; q is the position of its first digit
OccursAt(s, i, n, q) ==
    /\ LettersAt(s, i, n)
    /\ SkipOver(s, q, DigitClass) - q >= 3

AnyOrderAt(s, i) == \E n \in 4..6 : OccursAt(s, i, n, AfterAnyOrder(s, i + n))
OrderedAt(s, i) == \E n \in 4..6 : OccursAt(s, i, n, AfterOrdered(s, i + n))

\* the identifier of the occurrence at i with n letters and first digit q
IdentOf(s, i, n, q) ==
    LET letters == upper(SubSeq(s, i, i + n - 1))
        run == SkipOver(s, q, DigitClass) - q
        digits == SubSeq(s, q, q + (IF run > 6 THEN 6 ELSE run) - 1)
    IN  [studio_code |-> IF letters = <<"D","S","V","R">>
                         THEN <<"3","D","S","V","R">> ELSE letters,
         scene_code |-> PadLeft(DropZeros(digits), 3)]

Contains(msg, t) ==
    \E k \in 0..(Len(msg) - Len(t)) : SubSeq(msg, k + 1, k + Len(t)) = t

\* C11 (as stated): from_string succeeds iff the text has 4 to 6 letters not
\* preceded by a letter, then hyphens, underscores, periods and whitespace
\* in any order and quantity, then at least 3 digits; the identifier comes
\* from the leftmost occurrence; on failure the ValueError message contains
\* the input.
C11_MatchingRuleAnyOrder ==
    pstage \in {"parsed", "reparsed"} =>
        /\ parsed.ok <=> \E i \in 1..Len(text) : AnyOrderAt(text, i)
        /\ parsed.ok =>
              \E i \in 1..Len(text), n \in 4..6 :
                  /\ OccursAt(text, i, n, AfterAnyOrder(text, i + n))
                  /\ \A k \in 1..(i - 1) : ~AnyOrderAt(text, k)
                  /\ parsed.id = IdentOf(text, i, n, AfterAnyOrder(text, i + n))
        /\ ~parsed.ok => Contains(parsed.msg, text)

\* C11 (amended): the separators between letters and digits are optional
\* whitespace, then any number of hyphens, underscores and periods, then
\* optional whitespace; everything else as stated.
C11_MatchingRuleOrdered ==
    pstage \in {"parsed", "reparsed"} =>
        /\ parsed.ok <=> \E i \in 1..Len(text) : OrderedAt(text, i)
        /\ parsed.ok =>
              \E i \in 1..Len(text), n \in 4..6 :
                  /\ OccursAt(text, i, n, AfterOrdered(text, i + n))
                  /\ \A k \in 1..(i - 1) : ~OrderedAt(text, k)
                  /\ parsed.id = IdentOf(text, i, n, AfterOrdered(text, i + n))
        /\ ~parsed.ok => Contains(parsed.msg, text)

\* a second occurrence follows the one the identifier is built from
C11_Witness ==
    /\ pstage = "parsed"
    /\ parsed.ok
    /\ SubSeq(text, 1, 7) = <<"a","b","c","d"," ","-","\t">>
    /\ text[Len(text)] = "7" /\ text[Len(text) - 3] = "Z"
    /\ OrderedAt(text, Len(text) - 6)
    /\ parsed.id.studio_code = <<"A","B","C","D">>

\* ------------------------------------------------------------------------
\* Properties of the grouping (checked under SpecFilter)
\* ------------------------------------------------------------------------
\* the studio code starts with CZECH in any letter case
CzechCode(st) ==
    /\ Len(st) >= 5
    /\ st[1] \in {"C","c"} /\ st[2] \in {"Z","z"} /\ st[3] \in {"E","e"}
    /\ st[4] \in {"C","c"} /\ st[5] \in {"H","h"}

\* the places <<k, n>> at which file record f occurs in the grouping d
Places(d, f) ==
    UNION { { <<k, n>> : n \in {m \in 1..Len(d[k].value) : d[k].value[m] = f} } :
            k \in 1..Len(d) }

C6Example ==
    <<[id |-> 1, filename |-> FN_ABCD_001],
      [id |-> 2, filename |-> FN_abcd001_b],
      [id |-> 3, filename |-> FN_WXYZ_002]>>

\* C6: the grouping partitions its input: a file whose name parses and is
\* not suppressed occurs exactly once, under the key equal to its own parsed
\* identifier, lists keep input order; a file whose name does not parse
\* occurs nowhere; no key maps to an empty list; the example gives two keys.
C6_Partition ==
    pc = "filtered" =>
        LET d == unmatched_by_jav_id
            files == unmatched_files_info
        IN  /\ \A i \in 1..Len(files) :
                LET r == from_string(files[i].filename)
                IN  IF r.ok /\ ~CzechCode(r.id.studio_code)
                    THEN /\ Cardinality(Places(d, files[i])) = 1
                         /\ \A kn \in Places(d, files[i]) : d[kn[1]].key = r.id
                    ELSE Places(d, files[i]) = {}
            /\ \A k \in 1..Len(d) :
                /\ d[k].value # <<>>
                /\ \A n \in 1..Len(d[k].value) :
                      \E i \in 1..Len(files) : files[i] = d[k].value[n]
                /\ \A m, n \in 1..Len(d[k].value) :
                      m < n => d[k].value[m].id < d[k].value[n].id
            /\ \A k, l \in 1..Len(d) : k # l => d[k].key # d[l].key
            /\ (files = C6Example) =>
                  d = <<[key |-> [studio_code |-> <<"A","B","C","D">>,
                                  scene_code |-> <<"0","0","1">>],
                         value |-> <<C6Example[1], C6Example[2]>>],
                        [key |-> [studio_code |-> <<"W","X","Y","Z">>,
                                  scene_code |-> <<"0","0","2">>],
                         value |-> <<C6Example[3]>>]>>

C6_Witness ==
    /\ pc = "filtered"
    /\ unmatched_files_info = C6Example \o <<[id |-> 4, filename |-> FN_randomfile]>>
    /\ Len(unmatched_by_jav_id) = 2
    /\ Len(unmatched_by_jav_id[1].value) = 2

\* C7: no key of the grouping has a studio code starting with CZECH, and no
\* file whose parsed studio code starts with it is in any value list.
C7_CzechSuppressed ==
    pc = "filtered" =>
        /\ \A k \in 1..Len(unmatched_by_jav_id) :
              ~CzechCode(unmatched_by_jav_id[k].key.studio_code)
        /\ \A i \in 1..Len(unmatched_files_info) :
              LET r == from_string(unmatched_files_info[i].filename)
              IN  (r.ok /\ CzechCode(r.id.studio_code))
                     => Places(unmatched_by_jav_id, unmatched_files_info[i]) = {}

C7_Witness ==
    /\ pc = "filtered"
    /\ Len(unmatched_files_info) = 3
    /\ unmatched_files_info[1].filename = FN_ABCD_001
    /\ unmatched_files_info[2].filename = FN_CzechV_045
    /\ unmatched_files_info[3].filename = FN_czech_123
    /\ from_string(FN_CzechV_045).ok
    /\ Len(unmatched_by_jav_id) = 1

\* ------------------------------------------------------------------------
\* Properties of the matching loop (checked under SpecRun)
\* ------------------------------------------------------------------------
\* the scene_id of sc parses to an identifier equal to j
ParsesEqual(sc, j) ==
    /\ from_string(sc.scene_id).ok
    /\ from_string(sc.scene_id).id = j

\* C8: get_scene_for_jav_id returns the first scene of the candidate list
\* whose scene_id parses to an identifier equal to J, also when a scene with
\* an unparseable scene_id precedes it, and None only when no scene is equal.
C8_FirstEqualScene ==
    pc = "while" =>
        IF \E i \in 1..Len(potential_scenes) : ParsesEqual(potential_scenes[i], CurJavId)
        THEN LET i == CHOOSE i \in 1..Len(potential_scenes) :
                        /\ ParsesEqual(potential_scenes[i], CurJavId)
                        /\ \A m \in 1..(i - 1) : ~ParsesEqual(potential_scenes[m], CurJavId)
             IN  jav_scene_info = Some(potential_scenes[i])
        ELSE jav_scene_info = None

\* the scrapers triggered in a trace, in order
ScrapersOf(tr) ==
    LET sel == SelectSeq(tr, LAMBDA e : e[1] = "scrape")
    IN  [i \in 1..Len(sel) |-> sel[i][2]]

FileIdsOf(k) ==
    {unmatched_by_jav_id[k].value[n].id : n \in 1..Len(unmatched_by_jav_id[k].value)}

\* C9: an identifier whose lookups never return an equal scene gets each of
\* javdatabase, r18d, javlibrary triggered exactly once and then ends as
\* Exhausted without an exception of the loop itself: count_bad counts it,
\* none of its files gets a match request, and the loop goes on with the
\* next identifier.
C9_Exhausted ==
    /\ failed_call # "StopIteration"
    /\ \A k \in 1..Len(finished) :
          IF finished[k].outcome = "exhausted"
          THEN /\ ScrapersOf(finished[k].trace) = <<"javdatabase", "r18d", "javlibrary">>
               /\ \A n \in 1..Len(finished[k].trace) : finished[k].trace[n][1] # "match"
               /\ \A n \in 1..Len(match_requests) : match_requests[n][1] \notin FileIdsOf(k)
          ELSE \E n \in 1..Len(match_requests) : match_requests[n][1] \in FileIdsOf(k)
    /\ count_bad = Cardinality({k \in 1..Len(finished) : finished[k].outcome = "exhausted"})
    /\ pc \in {"search0", "search1", "scrape", "while"} =>
          /\ Len(finished) = idx - 1
          /\ (pc # "search1" /\ ~jav_scene_info.found) =>
                ScrapersOf(trace) =
                    SubSeq(<<"javdatabase", "r18d", "javlibrary">>, 1, Len(ScrapersOf(trace)))
    /\ pc = "for_id" => idx = Len(finished) + 1

C9_Witness ==
    /\ pc = "search0"
    /\ idx = 2
    /\ Len(finished) = 1
    /\ finished[1].outcome = "exhausted"
    /\ count_bad = 1
    /\ match_requests = <<>>

\* C10: a request that answers non-200 while one identifier is processed
\* never ends the run; only the failure of the initial list request does.
C10_ErrorIsolation ==
    pc \in {"crashed", "exit1"} => failed_call = "list"

\* C12: the wait after each scrape trigger lasts JAV_SCRAPE_TIMEOUT seconds.
C12_WaitIsConfigured ==
    \A n \in 1..Len(trace) :
        trace[n][1] = "sleep" => trace[n][2] = JAV_SCRAPE_TIMEOUT

\* ---- the order of the remote calls made for one identifier
IsPrefix(a, b) == Len(a) <= Len(b) /\ SubSeq(b, 1, Len(a)) = a

\* the calls of a trace before the match requests, waits without duration
CallsOf(tr) ==
    LET sel == SelectSeq(tr, LAMBDA e : e[1] # "match")
    IN  [i \in 1..Len(sel) |-> IF sel[i][1] = "sleep" THEN <<"sleep">> ELSE sel[i]]

LookupOf(j) == << <<"search", as_content_id(j)>>, <<"search", as_dvd_id(j)>> >>

\* lookup; javdatabase(DVD), wait, lookup; r18d(Content-ID), wait, lookup;
\* javlibrary(DVD), wait, lookup
FullOrder(j) ==
    LookupOf(j)
    \o << <<"scrape", "javdatabase", as_dvd_id(j)>>, <<"sleep">> >> \o LookupOf(j)
    \o << <<"scrape", "r18d", as_content_id(j)>>, <<"sleep">> >> \o LookupOf(j)
    \o << <<"scrape", "javlibrary", as_dvd_id(j)>>, <<"sleep">> >> \o LookupOf(j)

C13_Order ==
    /\ pc \in {"search0", "search1", "scrape", "while", "match"} =>
          IsPrefix(CallsOf(trace), FullOrder(CurJavId))
    /\ \A k \in 1..Len(finished) :
          IsPrefix(CallsOf(finished[k].trace), FullOrder(unmatched_by_jav_id[k].key))
    /\ pc = "scrape" => ~jav_scene_info.found

C13_Stop ==
    (pc \in {"while", "search1", "match"} /\ jav_scene_info.found)
        => /\ jav_scene_info' = jav_scene_info
           /\ ScrapersOf(trace') = ScrapersOf(trace)

FileName(id) == unmatched_files_info[id].filename

\* C15: a match request for file F and scene S exists only if S's scene_id
\* parses to the identifier parsed from F's filename; an identifier that ends
\* as found has a request for each of its files, all to one scene; a run that
\* reaches its summary has count_good + count_bad = number of identifiers.
C15_BindingSafety ==
    /\ \A n \in 1..Len(match_requests) :
          LET F == from_string(FileName(match_requests[n][1]))
              S == from_string(match_requests[n][2])
          IN  F.ok /\ S.ok /\ F.id = S.id
    /\ \A k \in 1..Len(finished) :
          finished[k].outcome = "found" =>
              /\ \A f \in FileIdsOf(k) :
                    \E n \in 1..Len(match_requests) : match_requests[n][1] = f
              /\ \A m, n \in 1..Len(match_requests) :
                    (match_requests[m][1] \in FileIdsOf(k)
                        /\ match_requests[n][1] \in FileIdsOf(k))
                    => match_requests[m][2] = match_requests[n][2]
    /\ pc = "done" =>
          /\ summary.printed
          /\ summary.good + summary.bad = Len(unmatched_by_jav_id)
          /\ count_good + count_bad = Len(unmatched_by_jav_id)

C15_Witness ==
    /\ pc = "done"
    /\ Len(unmatched_by_jav_id) = 1
    /\ Len(match_requests) = 2
    /\ match_requests[1][1] # match_requests[2][1]
    /\ count_good = 1

\* ------------------------------------------------------------------------
\* Properties of match-by-filename (checked under SpecMBF)
\* ------------------------------------------------------------------------
Alphanumeric == LetterClass \cup DigitClass

\* a name has an extension when a dot that is neither its first nor its
\* last character is followed by no other dot
DropExtension(name) ==
    IF \E k \in 2..(Len(name) - 1) :
            name[k] = "." /\ \A m \in (k + 1)..Len(name) : name[m] # "."
    THEN SubSeq(name, 1,
             (CHOOSE k \in 2..(Len(name) - 1) :
                 name[k] = "." /\ \A m \in (k + 1)..Len(name) : name[m] # ".") - 1)
    ELSE name

\* positions that survive: alphanumerics, and the first character of each
\* run of other characters
KeptPositions(s) ==
    {i \in 1..Len(s) : s[i] \in Alphanumeric \/ i = 1 \/ s[i - 1] \in Alphanumeric}

NthOf(S, j) == CHOOSE x \in S : Cardinality({y \in S : y < x}) = j - 1

\* the name without extension, lower-cased, each run of non-alphanumeric
\* characters replaced by one space
NormalName(name) ==
    LET b == DropExtension(name)
        K == KeptPositions(b)
    IN  [j \in 1..Cardinality(K) |->
            IF b[NthOf(K, j)] \in Alphanumeric THEN lower_char(b[NthOf(K, j)]) ELSE " "]

KnowsFile(scene, name) ==
    /\ scene.filenames_arr.json = "list"
    /\ \E n \in 1..Len(scene.filenames_arr.names) :
          NormalName(scene.filenames_arr.names[n]) = NormalName(name)

\* position of the first scene that knows the file, 0 when none does
FirstKnowing(scenes, name) ==
    IF \E k \in 1..Len(scenes) : KnowsFile(scenes[k], name)
    THEN CHOOSE k \in 1..Len(scenes) :
            KnowsFile(scenes[k], name) /\ \A m \in 1..(k - 1) : ~KnowsFile(scenes[m], name)
    ELSE 0

\* no request of a worker goes through session state left by another worker
C14_NoSharedState ==
    \A i \in 1..Len(tasks) : tasks[i].session_seen \in {0, i}

C14_AtMostOneRequest ==
    \A m, n \in 1..Len(posted) : posted[m].file_id = posted[n].file_id => m = n

C14_FirstKnowingScene ==
    \A n \in 1..Len(posted) :
        LET i == posted[n].thread
            k == FirstKnowing(tasks[i].potential_scenes, unmatched_files_info[i].filename)
        IN  /\ posted[n].file_id = unmatched_files_info[i].id
            /\ k > 0
            /\ posted[n].scene_id = tasks[i].potential_scenes[k].scene_id

C14_CountIsRequests ==
    pc = "printed" =>
        matches_count = Cardinality({posted[n].file_id : n \in 1..Len(posted)})

\* a step that is not the main thread's changes the record of one worker
C14_OwnRecord ==
    pc' = pc => Cardinality({i \in 1..Len(tasks) : tasks'[i] # tasks[i]}) <= 1

\* C14 as stated: under every interleaving the workers share no mutable
\* state, each file receives at most one match request, the request targets
\* the first scene of the file's own search results that knows the
\* normalised name, and the printed count is the number of files with a
\* match request.
C14_Concurrency ==
    /\ C14_NoSharedState
    /\ C14_AtMostOneRequest
    /\ C14_FirstKnowingScene
    /\ C14_CountIsRequests

\* C14 amended: the workers share the one requests.Session (so a worker's
\* request may follow another worker's use of it) and nothing else: a worker
\* step changes that worker's record only; the other three parts as stated.
C14_ConcurrencySharedSession ==
    /\ [](/\ \A i \in 1..Len(tasks) : tasks[i].session_seen \in 0..Len(tasks)
          /\ C14_AtMostOneRequest
          /\ C14_FirstKnowingScene
          /\ C14_CountIsRequests)
    /\ [][C14_OwnRecord]_vars

C14_Witness ==
    /\ pc = "printed"
    /\ matches_count = 2
    /\ \E i \in 1..Len(tasks) : tasks[i].k = 2 /\ Len(tasks[i].potential_scenes) = 3
    /\ \E i \in 1..Len(tasks) : tasks[i].session_seen \notin {0, i}

====
